---- MODULE Spec2Model ----
(***************************************************************************)
(* Model of the AgentCore sample scripts:                                  *)
(*   04-AgentCore-memory/01-short-term-memory-agent.py  (MemoryHookProvider)*)
(*   04-AgentCore-memory/delete_all_memories.py                            *)
(*   05-AgentCore-tools/.../01-file-operations.py                          *)
(* Strings that the code builds are sequences of tokens, so that what was  *)
(* appended to a prompt can be taken apart again.                          *)
(***************************************************************************)
EXTENDS Naturals, Sequences, FiniteSets, TLC

VARIABLES
    hook,           \* hook[i]: the fields MemoryHookProvider.__init__ sets
    store,          \* store[key]: the (text, role) pairs the memory holds for a session
    pc,             \* pc[i]: "UNINITIALIZED" | "ACTIVE"
    system_prompt,  \* system_prompt[i]: agent.system_prompt, a token sequence
    messages,       \* messages[i]: agent.messages, the agent's log
    get_calls,      \* get_calls[i]: the get_last_k_turns calls instance i issued
    handled,        \* handled[i]: per MessageAddedEvent, the number of its message
                    \* and the create_event calls the handler issued
    loaded,         \* loaded[i]: the history read of instance i: its outcome, the
                    \* session's events then, the prompt before and after
    escaped,        \* escaped[i]: an exception left a handler of instance i
    msg_count,      \* number of messages created so far (numbers the texts)
    \* delete_all_memories.py
    remote,         \* the memories the service holds, in listing order
    memories,       \* the list list_memories returned
    del_pc,         \* "start" | "loop" | "done" | "raised"
    del_pos,        \* position of the for loop in memories
    prompts,        \* the memory ids input() was called for, in order
    answers,        \* the answers given, in order
    delete_calls,   \* the memory_client.delete_memory calls issued
    \* 01-file-operations.py
    folder,         \* the entries of the local folder
    python_script,  \* the script name execute_script_in_sandbox is given
    sbx_pc,         \* "upload" | "list" | "execute" | "stop" | "done" | "raised"
    session,        \* the Code Interpreter session: "started" | "stopped"
    tool_calls,     \* the code_client.invoke calls issued, in order
    files_to_create,\* what upload_files_to_sandbox returned
    raised,         \* the exception that left execute_script_in_sandbox
    \* basic_memory.py
    service,        \* the memory objects the service holds, in creation order
    created         \* per create_memory_if_not_exists call: its name, the
                    \* create_memory calls it issued and what it returned

hookVars == <<hook, store, pc, system_prompt, messages, get_calls,
              handled, loaded, escaped, msg_count>>
delVars == <<remote, memories, del_pc, del_pos, prompts, answers, delete_calls>>
sbxVars == <<folder, python_script, sbx_pc, session, tool_calls, files_to_create,
             raised>>
memVars == <<service, created>>
vars == <<hookVars, delVars, sbxVars, memVars>>

----------------------------------------------------------------------------
(* Bounds *)

\* turns in the store before the first agent of the model is created
MaxPriorTurns == 6
\* MessageAddedEvents over all agent instances
MaxMsgs == 2
\* memories the service holds when delete_all_memories starts
MaxMemories == 3
\* calls of create_memory_if_not_exists
MaxCreates == 2

\* agent instances: `agent` and `new_agent` of the script
Instances == {1, 2}

----------------------------------------------------------------------------
(* Constants of the program *)

\* k = 5 in on_agent_initialized
K == 5

ACTOR_ID == "User84"
SESSION_ID == "20250101-000000"
MEMORY_ID == "mem-1"

Roles == {"USER", "ASSISTANT"}

\* the text of the n-th message of the conversation
Text(n) == "t" \o ToString(n)

\* the system prompt create_personal_agent gives the agent
BasePrompt == <<"You are a helpful personal assistant">>

\* the fixed header of line 102
Header == <<"\n\nRecent conversation:\n">>

----------------------------------------------------------------------------
(* Sequence helpers *)

RECURSIVE Flatten(_)
Flatten(ss) == IF ss = <<>> THEN <<>> ELSE Head(ss) \o Flatten(Tail(ss))

\* "\n".join(lines): the lines' tokens with a newline token between lines
RECURSIVE Join(_)
Join(lines) ==
    IF lines = <<>> THEN <<>>
    ELSE IF Len(lines) = 1 THEN lines[1]
    ELSE lines[1] \o <<"\n">> \o Join(Tail(lines))

Last(s) == s[Len(s)]

----------------------------------------------------------------------------
(* The agent's messages (strands): role and a list of content blocks *)

TextBlock(t) == [text |-> t]
ToolBlock == [toolUse |-> "websearch"]

Shapes == {"text", "tool", "tool_text"}

Content(shape, t) ==
    CASE shape = "text"      -> <<TextBlock(t)>>
      [] shape = "tool"      -> <<ToolBlock>>
      [] shape = "tool_text" -> <<ToolBlock, TextBlock(t)>>

Message(role, shape, t) == [role |-> role, content |-> Content(shape, t)]

----------------------------------------------------------------------------
(* The memory store (MemoryClient): what create_event and get_last_k_turns  *)
(* do to the events of one (memory_id, actor_id, session_id)                *)

KeyOf(self) ==
    [memory_id |-> self.memory_id, actor_id |-> self.actor_id,
     session_id |-> self.session_id]

\* a stored (text, role) pair as get_last_k_turns returns it
AsMessage(pair) == [role |-> pair[2], content |-> [text |-> pair[1]]]

\* create_event appends the given (text, role) pairs to the session
create_event(events, msgs) == events \o msgs

\* turns: a USER message opens a new turn; the messages after it belong to it
RECURSIVE GroupTurns(_, _, _)
GroupTurns(events, done, cur) ==
    IF events = <<>> THEN (IF cur = <<>> THEN done ELSE Append(done, cur))
    ELSE IF Head(events)[2] = "USER" /\ cur # <<>>
         THEN GroupTurns(Tail(events), Append(done, cur), <<AsMessage(Head(events))>>)
         ELSE GroupTurns(Tail(events), done, Append(cur, AsMessage(Head(events))))

\* the most recent k turns, in chronological order
get_last_k_turns(events, k) ==
    LET turns == GroupTurns(events, <<>>, <<>>)
    IN  IF Len(turns) <= k THEN turns
        ELSE SubSeq(turns, Len(turns) - k + 1, Len(turns))

\* a payload with the message at flattened position pos broken:
\* "no_role" drops its role, "no_text" drops content.text
BreakMessage(m, kind) ==
    IF kind = "no_role" THEN [content |-> m.content]
    ELSE [role |-> m.role, content |-> [data |-> m.content.text]]

RECURSIVE Corrupt(_, _, _)
Corrupt(turns, pos, kind) ==
    IF turns = <<>> THEN <<>>
    ELSE IF pos > Len(Head(turns))
         THEN <<Head(turns)>> \o Corrupt(Tail(turns), pos - Len(Head(turns)), kind)
         ELSE <<[n \in 1..Len(Head(turns)) |->
                    IF n = pos THEN BreakMessage(Head(turns)[n], kind)
                    ELSE Head(turns)[n]]>> \o Tail(turns)

\* what the read hands to the hook: the turns, a broken payload, or an exception
Response(turns, outcome) ==
    CASE outcome.kind = "ok"    -> [raises |-> FALSE, turns |-> turns]
      [] outcome.kind = "raise" -> [raises |-> TRUE, turns |-> <<>>]
      [] OTHER -> [raises |-> FALSE, turns |-> Corrupt(turns, outcome.pos, outcome.kind)]

ReadOutcomes(turns) ==
    {[kind |-> "ok", pos |-> 0], [kind |-> "raise", pos |-> 0]}
    \cup [kind : {"no_role", "no_text"}, pos : 1..Len(Flatten(turns))]

----------------------------------------------------------------------------
(* MemoryHookProvider *)

\* __init__: the four fields (memory_client is the store)
MemoryHookProvider(memory_id, actor_id, session_id) ==
    [memory_id |-> memory_id, actor_id |-> actor_id, session_id |-> session_id]

\* faulty variant: asks for the last turn only
recent_turns_request_k1(self) ==
    [memory_id |-> self.memory_id, actor_id |-> self.actor_id,
     session_id |-> self.session_id, k |-> 1]

\* on_agent_initialized, lines 84-89: the read it requests
recent_turns_request(self) ==
    [memory_id |-> self.memory_id, actor_id |-> self.actor_id,
     session_id |-> self.session_id, k |-> K]

WellFormed(message) ==
    /\ "role" \in DOMAIN message
    /\ "content" \in DOMAIN message
    /\ "text" \in DOMAIN message.content

\* f"{role}: {content}"
FormatLine(message) == <<message.role, ": ", message.content.text>>

\* lines 93-98: the loops over turns and messages; a KeyError ends them
RECURSIVE context_messages(_)
context_messages(msgs) ==
    IF msgs = <<>> THEN [ok |-> TRUE, lines |-> <<>>]
    ELSE IF ~WellFormed(Head(msgs)) THEN [ok |-> FALSE, lines |-> <<>>]
    ELSE LET rest == context_messages(Tail(msgs))
         IN  [ok |-> rest.ok,
              lines |-> IF rest.ok THEN <<FormatLine(Head(msgs))>> \o rest.lines
                        ELSE <<>>]

\* the lines formatted before the first broken message
RECURSIVE FormattedPrefix(_)
FormattedPrefix(msgs) ==
    IF msgs = <<>> \/ ~WellFormed(Head(msgs)) THEN <<>>
    ELSE <<FormatLine(Head(msgs))>> \o FormattedPrefix(Tail(msgs))

Reverse(s) == [n \in 1..Len(s) |-> s[Len(s) + 1 - n]]

\* faulty variant: extends the prompt message by message, so a broken message leaves
\* the header and the lines before it in the prompt
on_agent_initialized_partial(agent, response) ==
    IF response.raises \/ response.turns = <<>> THEN [agent |-> agent, escaped |-> FALSE]
    ELSE [agent |-> [agent EXCEPT !.system_prompt =
                        @ \o Header \o Join(FormattedPrefix(Flatten(response.turns)))],
          escaped |-> FALSE]

\* faulty variant: newest message first
on_agent_initialized_reversed(agent, response) ==
    IF response.raises \/ response.turns = <<>> THEN [agent |-> agent, escaped |-> FALSE]
    ELSE LET ctx == context_messages(Flatten(response.turns))
         IN  IF ~ctx.ok THEN [agent |-> agent, escaped |-> FALSE]
             ELSE [agent |-> [agent EXCEPT !.system_prompt =
                                 @ \o Header \o Join(Reverse(ctx.lines))],
                   escaped |-> FALSE]

\* faulty variant: assigns the prompt instead of appending to it
on_agent_initialized_replace(agent, response) ==
    IF response.raises \/ response.turns = <<>> THEN [agent |-> agent, escaped |-> FALSE]
    ELSE LET ctx == context_messages(Flatten(response.turns))
         IN  IF ~ctx.ok THEN [agent |-> agent, escaped |-> FALSE]
             ELSE [agent |-> [agent EXCEPT !.system_prompt = Header \o Join(ctx.lines)],
                   escaped |-> FALSE]

\* on_agent_initialized, lines 82-106, given event.agent (system_prompt and
\* messages) and what the read returned: the agent it leaves and whether an
\* exception leaves the handler
on_agent_initialized(agent, response) ==
    IF response.raises THEN [agent |-> agent, escaped |-> FALSE]
    ELSE IF response.turns = <<>> THEN [agent |-> agent, escaped |-> FALSE]
    ELSE LET ctx == context_messages(Flatten(response.turns))
         IN  IF ~ctx.ok THEN [agent |-> agent, escaped |-> FALSE]
             ELSE [agent |-> [agent EXCEPT !.system_prompt =
                                               @ \o Header \o Join(ctx.lines)],
                   escaped |-> FALSE]

\* messages[-1]["content"][0]["text"] and messages[-1]["role"] can be read
FirstBlockHasText(msgs) ==
    /\ msgs # <<>>
    /\ Last(msgs).content # <<>>
    /\ "text" \in DOMAIN Last(msgs).content[1]

\* faulty variant: the module's SESSION_ID in place of self.session_id
create_event_call_global(self, msgs, write_ok) ==
    [memory_id |-> self.memory_id, actor_id |-> self.actor_id,
     session_id |-> SESSION_ID, messages |-> msgs, ok |-> write_ok]

\* on_message_added, lines 112-117: the write it requests
create_event_call(self, msgs, write_ok) ==
    [memory_id |-> self.memory_id, actor_id |-> self.actor_id,
     session_id |-> self.session_id, messages |-> msgs, ok |-> write_ok]

\* faulty variant: messages[0] in place of messages[-1]
on_message_added_first(self, agent, write_ok) ==
    IF ~FirstBlockHasText(agent.messages)
    THEN [calls |-> <<>>, agent |-> agent, escaped |-> FALSE]
    ELSE [calls |-> <<create_event_call(self,
                         << <<agent.messages[1].content[1].text,
                              agent.messages[1].role>> >>, write_ok)>>,
          agent |-> agent, escaped |-> FALSE]

\* faulty variant: no except clause, a failed write leaves the handler
on_message_added_reraise(self, agent, write_ok) ==
    IF ~FirstBlockHasText(agent.messages)
    THEN [calls |-> <<>>, agent |-> agent, escaped |-> FALSE]
    ELSE [calls |-> <<create_event_call(self,
                         << <<Last(agent.messages).content[1].text,
                              Last(agent.messages).role>> >>, write_ok)>>,
          agent |-> agent, escaped |-> ~write_ok]

\* faulty variant: the history is loaded again on every message
on_message_added_reload(self, agent, write_ok) ==
    IF ~FirstBlockHasText(agent.messages)
    THEN [calls |-> <<>>, agent |-> agent, escaped |-> FALSE]
    ELSE [calls |-> <<create_event_call(self,
                         << <<Last(agent.messages).content[1].text,
                              Last(agent.messages).role>> >>, write_ok)>>,
          agent |-> [agent EXCEPT !.system_prompt =
                        @ \o Header \o FormatLine(AsMessage(
                            <<Last(agent.messages).content[1].text,
                              Last(agent.messages).role>>))],
          escaped |-> FALSE]

\* on_message_added, lines 110-119, given event.agent: the create_event calls
\* it issues (write_ok: whether the store accepts the write), the agent it
\* leaves and whether an exception leaves the handler
on_message_added(self, agent, write_ok) ==
    IF ~FirstBlockHasText(agent.messages)
    THEN [calls |-> <<>>, agent |-> agent, escaped |-> FALSE]
    ELSE [calls |-> <<create_event_call(self,
                         << <<Last(agent.messages).content[1].text,
                              Last(agent.messages).role>> >>, write_ok)>>,
          agent |-> agent, escaped |-> FALSE]

\* the store after the calls: a call that raised stored nothing
RECURSIVE ApplyCalls(_, _)
ApplyCalls(st, calls) ==
    IF calls = <<>> THEN st
    ELSE LET c == Head(calls)
             key == [memory_id |-> c.memory_id, actor_id |-> c.actor_id,
                     session_id |-> c.session_id]
         IN  ApplyCalls(IF c.ok THEN [st EXCEPT ![key] = create_event(@, c.messages)]
                        ELSE st,
                        Tail(calls))

----------------------------------------------------------------------------
(* The script: create_personal_agent, agent(...) *)

\* the conversation of n turns a returning user's session already holds:
\* odd turns are USER, ASSISTANT; even turns are a lone USER message
RECURSIVE PriorConversation(_)
PriorConversation(n) ==
    IF n = 0 THEN <<>>
    ELSE LET before == PriorConversation(n - 1)
         IN  IF n % 2 = 1
             THEN before \o << <<Text(Len(before) + 1), "USER">>,
                               <<Text(Len(before) + 2), "ASSISTANT">> >>
             ELSE before \o << <<Text(Len(before) + 1), "USER">> >>

\* how a read ended: "ok", "raise" or, for either kind of broken message,
\* "malformed"
ReadResult(kind) == IF kind \in {"no_role", "no_text"} THEN "malformed" ELSE kind

NotLoaded ==
    [outcome |-> "none", partial |-> FALSE, events |-> <<>>, upto |-> 0,
     before |-> <<>>, after |-> <<>>]

Keys == {KeyOf(MemoryHookProvider(MEMORY_ID, ACTOR_ID, SESSION_ID))}

Agent(i) == [system_prompt |-> system_prompt[i], messages |-> messages[i]]

\* the other scripts have not been started
DeleteIdle ==
    /\ remote = <<>> /\ memories = <<>> /\ del_pc = "start" /\ del_pos = 1
    /\ prompts = <<>> /\ answers = <<>> /\ delete_calls = <<>>

SandboxIdle ==
    /\ folder = {} /\ python_script = "" /\ sbx_pc = "upload" /\ session = "started"
    /\ tool_calls = <<>> /\ files_to_create = <<>> /\ raised = "none"

MemoryIdle == service = <<>> /\ created = <<>>

HookIdle ==
    /\ hook = <<>> /\ store = <<>> /\ pc = <<>> /\ system_prompt = <<>>
    /\ messages = <<>> /\ get_calls = <<>> /\ handled = <<>> /\ loaded = <<>>
    /\ escaped = <<>> /\ msg_count = 0

\* create_personal_agent: Agent(system_prompt=..., hooks=[MemoryHookProvider(...)])
InitHook ==
    /\ DeleteIdle /\ SandboxIdle /\ MemoryIdle
    /\ hook = [i \in Instances |-> MemoryHookProvider(MEMORY_ID, ACTOR_ID, SESSION_ID)]
    /\ \E n \in 0..MaxPriorTurns :
          /\ store = [key \in Keys |-> PriorConversation(n)]
          /\ msg_count = Len(PriorConversation(n))
    /\ pc = [i \in Instances |-> "UNINITIALIZED"]
    /\ system_prompt = [i \in Instances |-> BasePrompt]
    /\ messages = [i \in Instances |-> <<>>]
    /\ get_calls = [i \in Instances |-> <<>>]
    /\ handled = [i \in Instances |-> <<>>]
    /\ loaded = [i \in Instances |-> NotLoaded]
    /\ escaped = [i \in Instances |-> FALSE]

\* AgentInitializedEvent of instance i: the callback register_hooks registered.
\* The script creates `agent` (line 171) before `new_agent` (line 196).
AgentInitialized(i) ==
    /\ pc[i] = "UNINITIALIZED"
    /\ \A j \in Instances : j < i => pc[j] = "ACTIVE"
    /\ LET req == recent_turns_request(hook[i])
           turns == get_last_k_turns(store[KeyOf(req)], req.k)
       IN  \E outcome \in ReadOutcomes(turns) :
              LET res == on_agent_initialized(Agent(i), Response(turns, outcome))
              IN  /\ get_calls' = [get_calls EXCEPT ![i] = Append(@, req)]
                  /\ system_prompt' = [system_prompt EXCEPT ![i] = res.agent.system_prompt]
                  /\ messages' = [messages EXCEPT ![i] = res.agent.messages]
                  /\ escaped' = [escaped EXCEPT ![i] = @ \/ res.escaped]
                  /\ loaded' = [loaded EXCEPT ![i] =
                                  [outcome |-> ReadResult(outcome.kind),
                                   partial |-> outcome.pos > 1,
                                   events |-> store[KeyOf(req)], upto |-> msg_count,
                                   before |-> system_prompt[i],
                                   after |-> res.agent.system_prompt]]
    /\ pc' = [pc EXCEPT ![i] = "ACTIVE"]
    /\ UNCHANGED <<hook, store, handled, msg_count, delVars, sbxVars, memVars>>

\* the messages the agent appends: a user's text, the assistant's text, or an
\* assistant message whose first block is a tool use
NewMessages(t) ==
    {Message(role, "text", t) : role \in Roles}
    \cup {Message("ASSISTANT", shape, t) : shape \in Shapes}

AllLogs == Flatten([j \in 1..Cardinality(Instances) |-> messages[j]])

\* MessageAddedEvent of instance i: the agent has appended one message to its
\* log and runs the callback
MessageAdded(i) ==
    /\ pc[i] = "ACTIVE"
    /\ Len(AllLogs) < MaxMsgs
    /\ \E m \in NewMessages(Text(msg_count + 1)), write_ok \in BOOLEAN :
          LET log == Append(messages[i], m)
              res == on_message_added(hook[i],
                                      [system_prompt |-> system_prompt[i],
                                       messages |-> log], write_ok)
          IN  /\ (res.calls = <<>> => write_ok)
              /\ messages' = [messages EXCEPT ![i] = res.agent.messages]
              /\ system_prompt' = [system_prompt EXCEPT ![i] = res.agent.system_prompt]
              /\ store' = ApplyCalls(store, res.calls)
              /\ handled' = [handled EXCEPT ![i] =
                               Append(@, [no |-> msg_count + 1, calls |-> res.calls])]
              /\ escaped' = [escaped EXCEPT ![i] = @ \/ res.escaped]
              /\ msg_count' = msg_count + 1
    /\ UNCHANGED <<hook, pc, get_calls, loaded, delVars, sbxVars, memVars>>

NextHook ==
    \/ \E i \in Instances : AgentInitialized(i)
    \/ \E i \in Instances : MessageAdded(i)

Spec == InitHook /\ [][NextHook]_vars

\* SESSION_ID is the start time of a run of the script (line 160): the
\* session of this run and the session of another run
OTHER_SESSION_ID == "20250102-000000"
Sessions == {SESSION_ID, OTHER_SESSION_ID}

SessionKey(s) == KeyOf(MemoryHookProvider(MEMORY_ID, ACTOR_ID, s))
SessionKeys == {SessionKey(s) : s \in Sessions}

\* what the two sessions hold when the hooks are constructed: one turn each,
\* no text in common
SessionEvents(key) ==
    IF key.session_id = SESSION_ID THEN PriorConversation(1)
    ELSE << <<Text(Len(PriorConversation(1)) + 1), "USER">>,
            <<Text(Len(PriorConversation(1)) + 2), "ASSISTANT">> >>

\* hook instances constructed with either session id
InitSessions ==
    /\ DeleteIdle /\ SandboxIdle /\ MemoryIdle
    /\ \E bound \in [Instances -> Sessions] :
          hook = [i \in Instances |-> MemoryHookProvider(MEMORY_ID, ACTOR_ID, bound[i])]
    /\ store = [key \in SessionKeys |-> SessionEvents(key)]
    /\ msg_count = Len(SessionEvents(SessionKey(SESSION_ID)))
                    + Len(SessionEvents(SessionKey(OTHER_SESSION_ID)))
    /\ pc = [i \in Instances |-> "UNINITIALIZED"]
    /\ system_prompt = [i \in Instances |-> BasePrompt]
    /\ messages = [i \in Instances |-> <<>>]
    /\ get_calls = [i \in Instances |-> <<>>]
    /\ handled = [i \in Instances |-> <<>>]
    /\ loaded = [i \in Instances |-> NotLoaded]
    /\ escaped = [i \in Instances |-> FALSE]

SpecSessions == InitSessions /\ [][NextHook]_vars



----------------------------------------------------------------------------
(* delete_all_memories.py *)

\* str.lower() on the characters the answers are made of
LowerChar(c) ==
    CASE c = "Y" -> "y"
      [] c = "N" -> "n"
      [] c = "E" -> "e"
      [] c = "S" -> "s"
      [] OTHER -> c

lower(str) == [n \in 1..Len(str) |-> LowerChar(str[n])]

\* what the user may type at the prompt, as character sequences
Answers ==
    {<<"y">>, <<"Y">>, <<"n">>, <<"N">>, <<>>, <<"y", "e", "s">>, <<"Y", "E", "S">>,
     <<" ", "y">>}

MemoryName(n) == "mem-" \o ToString(n)

\* faulty variant: the answer is compared without lower()
confirmed_case_sensitive(confirmation) == confirmation = <<"y">>

\* delete_all_memories, line 36: the else branch is taken
confirmed(confirmation) == ~(lower(confirmation) # <<"y">>)

\* delete_memory, lines 16-25: the call it issues and whether an exception
\* leaves it (delete_ok: whether the service accepts the delete)
delete_memory(memory_id, delete_ok) ==
    [call |-> [memory_id |-> memory_id, ok |-> delete_ok], escaped |-> FALSE]

RemoveId(list, id) ==
    LET Keep(m) == m.id # id
    IN  SelectSeq(list, Keep)

InitDelete ==
    /\ HookIdle /\ SandboxIdle /\ MemoryIdle
    /\ \E n \in 0..MaxMemories : remote = [m \in 1..n |-> [id |-> MemoryName(m)]]
    /\ memories = <<>> /\ del_pc = "start" /\ del_pos = 1
    /\ prompts = <<>> /\ answers = <<>> /\ delete_calls = <<>>

\* list_memories(memory_client), line 29
ListMemories ==
    /\ del_pc = "start"
    /\ memories' = remote
    /\ del_pc' = IF remote = <<>> THEN "done" ELSE "loop"
    /\ UNCHANGED <<remote, del_pos, prompts, answers, delete_calls, hookVars, sbxVars, memVars>>

\* one pass of the for loop, lines 31-39
ConfirmAndDelete ==
    /\ del_pc = "loop"
    /\ \E confirmation \in Answers, delete_ok \in BOOLEAN :
          LET memory_id == memories[del_pos].id
              res == delete_memory(memory_id, delete_ok)
          IN  /\ (~confirmed(confirmation) => delete_ok)
              /\ prompts' = Append(prompts, memory_id)
              /\ answers' = Append(answers, confirmation)
              /\ IF confirmed(confirmation)
                 THEN /\ delete_calls' = Append(delete_calls, res.call)
                      /\ remote' = IF res.call.ok THEN RemoveId(remote, res.call.memory_id)
                                   ELSE remote
                      /\ del_pc' = IF res.escaped THEN "raised"
                                   ELSE IF del_pos = Len(memories) THEN "done"
                                   ELSE "loop"
                 ELSE /\ UNCHANGED <<delete_calls, remote>>
                      /\ del_pc' = IF del_pos = Len(memories) THEN "done" ELSE "loop"
    /\ del_pos' = del_pos + 1
    /\ UNCHANGED <<memories, hookVars, sbxVars, memVars>>

NextDelete ==
    \/ ListMemories
    \/ ConfirmAndDelete

SpecDelete == InitDelete /\ [][NextDelete]_vars

----------------------------------------------------------------------------
(* 01-file-operations.py *)

\* the entries a folder may hold: stem and extension as os.path.splitext
\* gives them, whether the entry is a file, and the file's text
FolderEntries ==
    {[stem |-> "stats", ext |-> ".py", isfile |-> TRUE, text |-> "code of stats.py"],
     [stem |-> "data", ext |-> ".csv", isfile |-> TRUE, text |-> "rows of data.csv"],
     [stem |-> "report", ext |-> ".PY", isfile |-> TRUE, text |-> "code of report.PY"],
     [stem |-> "notes", ext |-> ".txt", isfile |-> TRUE, text |-> "text of notes.txt"],
     [stem |-> "old", ext |-> ".py", isfile |-> FALSE, text |-> ""]}

Scripts == {"stats.py", "report.PY", "data.csv", "notes.txt", "old.py", "missing.py"}

\* .lower().lstrip('.') on the extensions of FolderEntries
Extension(ext) ==
    CASE ext = ".py"  -> "py"
      [] ext = ".PY"  -> "py"
      [] ext = ".csv" -> "csv"
      [] ext = ".txt" -> "txt"
      [] OTHER -> ext

extensions == {"csv", "py"}

\* os.listdir gives the entries in some order; no two entries share a name,
\* so the order does not decide which text python_code finds
RECURSIVE ListDir(_)
ListDir(entries) ==
    IF entries = {} THEN <<>>
    ELSE LET e == CHOOSE x \in entries : TRUE
         IN  <<e>> \o ListDir(entries \ {e})

\* upload_files_to_sandbox, lines 101-111
RECURSIVE FilesToCreate(_)
FilesToCreate(listing) ==
    IF listing = <<>> THEN <<>>
    ELSE (IF Extension(Head(listing).ext) \in extensions /\ Head(listing).isfile
          THEN <<[path |-> Head(listing).stem \o Head(listing).ext,
                  text |-> Head(listing).text]>>
          ELSE <<>>)
         \o FilesToCreate(Tail(listing))

\* faulty variant: the path is not compared, every uploaded text is taken
python_code_any(files, script) == [n \in 1..Len(files) |-> files[n].text]

\* line 162: the texts of the uploaded files whose path is python_script
python_code(files, script) ==
    LET Match(file) == file.path = script
    IN  [n \in 1..Len(SelectSeq(files, Match)) |-> SelectSeq(files, Match)[n].text]

\* call_tool: invoke raises, the stream is empty (None is returned, which
\* json.loads refuses), the result lacks structuredContent.stdout, or all is well
ToolOutcomes == {"ok", "invoke_raises", "empty_stream"}
ExecOutcomes == ToolOutcomes \cup {"no_stdout"}

InitSandbox ==
    /\ HookIdle /\ DeleteIdle /\ MemoryIdle
    /\ folder \in SUBSET FolderEntries
    /\ python_script \in Scripts
    /\ sbx_pc = "upload" /\ session = "started"
    /\ tool_calls = <<>> /\ files_to_create = <<>> /\ raised = "none"

\* Step 1, line 154: upload_files_to_sandbox(folder)
UploadFiles ==
    /\ sbx_pc = "upload"
    /\ \E outcome \in ToolOutcomes :
          LET files == FilesToCreate(ListDir(folder))
          IN  /\ tool_calls' = Append(tool_calls,
                                  [tool |-> "writeFiles", arguments |-> files])
              /\ IF outcome = "ok"
                 THEN /\ files_to_create' = files
                      /\ sbx_pc' = "list" /\ raised' = raised
                 ELSE /\ files_to_create' = files_to_create
                      /\ sbx_pc' = "raised"
                      /\ raised' = IF outcome = "invoke_raises" THEN "ClientError"
                                   ELSE "TypeError"
    /\ UNCHANGED <<folder, python_script, session, hookVars, delVars, memVars>>

\* Step 2, lines 157-159: read_sandbox_files()
ReadSandboxFiles ==
    /\ sbx_pc = "list"
    /\ \E outcome \in ToolOutcomes :
          /\ tool_calls' = Append(tool_calls, [tool |-> "listFiles", arguments |-> <<>>])
          /\ IF outcome = "ok"
             THEN sbx_pc' = "execute" /\ raised' = raised
             ELSE /\ sbx_pc' = "raised"
                  /\ raised' = IF outcome = "invoke_raises" THEN "ClientError"
                               ELSE "TypeError"
    /\ UNCHANGED <<folder, python_script, session, files_to_create, hookVars, delVars, memVars>>

\* Steps 3 and 4, lines 162-177: pick the script, executeCode, read the result
ExecuteCode ==
    /\ sbx_pc = "execute"
    /\ LET code == python_code(files_to_create, python_script)
       IN  IF Len(code) = 0
           THEN /\ sbx_pc' = "raised" /\ raised' = "ValueError"
                /\ UNCHANGED tool_calls
           ELSE \E outcome \in ExecOutcomes :
                   /\ tool_calls' = Append(tool_calls,
                                       [tool |-> "executeCode", arguments |-> <<code[1]>>])
                   /\ IF outcome = "ok"
                      THEN sbx_pc' = "stop" /\ raised' = raised
                      ELSE /\ sbx_pc' = "raised"
                           /\ raised' = CASE outcome = "invoke_raises" -> "ClientError"
                                          [] outcome = "empty_stream" -> "TypeError"
                                          [] OTHER -> "KeyError"
    /\ UNCHANGED <<folder, python_script, session, files_to_create, hookVars, delVars, memVars>>

\* Step 5, line 180: code_client.stop()
StopSession ==
    /\ sbx_pc = "stop"
    /\ session' = "stopped"
    /\ sbx_pc' = "done"
    /\ UNCHANGED <<folder, python_script, tool_calls, files_to_create, raised,
                   hookVars, delVars, memVars>>

NextSandbox ==
    \/ UploadFiles
    \/ ReadSandboxFiles
    \/ ExecuteCode
    \/ StopSession

SpecSandbox == InitSandbox /\ [][NextSandbox]_vars


----------------------------------------------------------------------------
(* basic_memory.py: create_memory_if_not_exists *)

MemoryNames == {"CustomerSupportAgentMemory", "OrdersMemory", "NotesMemory"}

\* the memory object the service returns for its n-th memory
MemoryObject(n, name) == [id |-> name \o "-" \o ToString(n), name |-> name]

\* the names line 98 can resolve: the function's parameters and locals, and
\* the module's globals (lines 39-58, the functions, and `memory` of line 167)
ScopeNames ==
    {"memory_client", "name", "description", "memory", "e",
     "datetime", "json", "logging", "os", "MemoryClient", "ClientError", "tool",
     "logger", "region", "list_memories", "create_memory_if_not_exists",
     "create_event", "list_events", "SAMPLE_CONVERSATION_HISTORY", "main"}

\* the names the f-string of line 98 reads
LoggedNames == {"memory_name", "memory"}

\* python's None and a returned object, as sequences of at most one element
None == <<>>
Some(obj) == <<obj>>

Exists(svc, name) == \E n \in 1..Len(svc) : svc[n].name = name

\* create_memory_if_not_exists, lines 75-104 (the existence check of lines
\* 87-90 is commented out): the create_memory calls it issues and what it
\* returns. response is what memory_client.create_memory answers: None when
\* it raises, else the new memory object.
create_memory_if_not_exists(memory_client, name, response) ==
    [calls |-> <<[name |-> name, ok |-> response # None]>>,
     result |-> IF response = None THEN None
                ELSE IF ~(LoggedNames \subseteq ScopeNames) THEN None
                ELSE response]

InitMemory ==
    /\ HookIdle /\ DeleteIdle /\ SandboxIdle
    /\ \E existing \in SUBSET MemoryNames :
          service = [n \in 1..Cardinality(existing) |->
                        MemoryObject(n, ListDir(existing)[n])]
    /\ created = <<>>

\* one call of create_memory_if_not_exists(memory_client, name, description);
\* the service accepts or refuses each create_memory call
CreateMemoryIfNotExists ==
    /\ Len(created) < MaxCreates
    /\ \E name \in MemoryNames, accepts \in BOOLEAN :
          LET response == IF accepts THEN Some(MemoryObject(Len(service) + 1, name))
                          ELSE None
              res == create_memory_if_not_exists(service, name, response)
              made == IF \E c \in 1..Len(res.calls) : res.calls[c].ok
                      THEN response ELSE None
          IN  /\ service' = service \o made
              /\ created' = Append(created,
                               [name |-> name, existed |-> Exists(service, name),
                                existing |-> {service[n] : n \in {m \in 1..Len(service) :
                                                  service[m].name = name}},
                                calls |-> res.calls, made |-> made,
                                result |-> res.result])
    /\ UNCHANGED <<hookVars, delVars, sbxVars>>

NextMemory ==
    \/ CreateMemoryIfNotExists

SpecMemory == InitMemory /\ [][NextMemory]_vars

----------------------------------------------------------------------------
(* What the claims speak of *)

\* the first text segment of a message's content ("" when it has none)
RECURSIVE FirstTextOf(_)
FirstTextOf(content) ==
    IF content = <<>> THEN ""
    ELSE IF "text" \in DOMAIN Head(content) THEN Head(content).text
    ELSE FirstTextOf(Tail(content))

\* the (text, role) pair that stands for a log message in the store
PairOf(m) == <<FirstTextOf(m.content), m.role>>

TextsIn(log) ==
    {FirstTextOf(log[n].content) : n \in 1..Len(log)} \ {""}

\* the session's stored pairs that carry a text of instance i's log
StoredBy(i) ==
    LET Mine(pair) == pair[1] \in TextsIn(messages[i])
    IN  SelectSeq(store[KeyOf(hook[i])], Mine)

\* a create_event call of the event succeeded
Stored(h) == \E c \in 1..Len(h.calls) : h.calls[c].ok

\* the pairs of the log messages whose event stored them, in log order
RECURSIVE PersistedPart(_, _)
PersistedPart(log, hs) ==
    IF log = <<>> THEN <<>>
    ELSE (IF Stored(Head(hs)) THEN <<PairOf(Head(log))>> ELSE <<>>)
         \o PersistedPart(Tail(log), Tail(hs))

\* the token sequence split at the newline tokens
RECURSIVE SplitLines(_, _)
SplitLines(tokens, cur) ==
    IF tokens = <<>> THEN <<cur>>
    ELSE IF Head(tokens) = "\n" THEN <<cur>> \o SplitLines(Tail(tokens), <<>>)
    ELSE SplitLines(Tail(tokens), Append(cur, Head(tokens)))

IsPrefix(s, t) == Len(s) <= Len(t) /\ SubSeq(t, 1, Len(s)) = s

\* what follows `before` in the prompt
Added(i) == SubSeq(system_prompt[i], Len(loaded[i].before) + 1, Len(system_prompt[i]))

\* the messages of the min(N, 5) most recent of the N turns the session held
\* when instance i read it, oldest first
RecentMessages(i) ==
    LET turns == GroupTurns(loaded[i].events, <<>>, <<>>)
        N == Len(turns)
        first == IF N < 5 THEN 1 ELSE N - 4
    IN  Flatten(SubSeq(turns, first, N))

TurnsAtRead(i) == Len(GroupTurns(loaded[i].events, <<>>, <<>>))

Initialized(i) == loaded[i].outcome # "none"
ReadFailed(i) == loaded[i].outcome \in {"raise", "malformed"}

\* the line "{role}: {text}" stands in the prompt
Visible(role, text, prompt) ==
    \E p \in 1..Len(prompt) :
        p + 2 <= Len(prompt) /\ SubSeq(prompt, p, p + 2) = <<role, ": ", text>>

CountHeaders(prompt) == Cardinality({p \in 1..Len(prompt) : <<prompt[p]>> = Header})

----------------------------------------------------------------------------
(* C1 *)

\* C1 as claimed: the messages stored for the session by an instance are
\* exactly the messages of its log, in order, none missing, none duplicated.
C1_Original ==
    \A i \in Instances :
        StoredBy(i) = [n \in 1..Len(messages[i]) |-> PairOf(messages[i][n])]

\* C1 as amended: the stored messages of an instance are, in log order and
\* each exactly once, the log messages whose create_event call was issued and
\* did not raise; a message is missing when its first content block has no
\* text (no call is issued) or its write raised.
C1_StoredIsPersistedPart ==
    \A i \in Instances :
        /\ Len(handled[i]) = Len(messages[i])
        /\ StoredBy(i) = PersistedPart(messages[i], handled[i])
        /\ \A n \in 1..Len(handled[i]) :
              Stored(handled[i][n]) => FirstBlockHasText(<<messages[i][n]>>)

\* an instance with a stored message and a lost one
C1_Witness ==
    \E i \in Instances :
        /\ Len(messages[i]) = 2
        /\ Len(StoredBy(i)) = 1
        /\ Stored(handled[i][2])

----------------------------------------------------------------------------
(* C2 *)

\* C2 as claimed: every MessageAddedEvent issues exactly one create_event
\* call, whose messages are the one pair (first text segment, role) of the
\* last log message.
C2_Original ==
    \A i \in Instances : \A n \in 1..Len(handled[i]) :
        /\ Len(handled[i][n].calls) = 1
        /\ handled[i][n].calls[1].messages = <<PairOf(messages[i][n])>>

----------------------------------------------------------------------------
(* C3 *)

\* C3: a store write that raises never leaves on_message_added, is attempted
\* once, leaves the log and the system prompt as they were, and the events
\* after it are handled as usual (one call for a message with a text block,
\* stored when the write succeeds).
C3_WriteFailureContained ==
    \A i \in Instances :
        /\ ~escaped[i]
        /\ Len(messages[i]) = Len(handled[i])
        /\ handled[i] # <<>> => system_prompt[i] = loaded[i].after
        /\ \A n \in 1..Len(handled[i]) :
              /\ Len(handled[i][n].calls) <= 1
              /\ FirstBlockHasText(<<messages[i][n]>>) => Len(handled[i][n].calls) = 1
              /\ Stored(handled[i][n]) =>
                    \E p \in 1..Len(store[KeyOf(hook[i])]) :
                        store[KeyOf(hook[i])][p] = PairOf(messages[i][n])

\* a failed write followed by a stored message
C3_Witness ==
    \E i \in Instances :
        /\ Len(handled[i]) = 2
        /\ Len(handled[i][1].calls) = 1 /\ ~Stored(handled[i][1])
        /\ Stored(handled[i][2])

----------------------------------------------------------------------------
(* C4 *)

\* C4: when the history read raises or returns a broken message at any
\* position, on_agent_initialized ends without raising and the system prompt
\* is what it was before the call.
C4_ReadFailureLeavesPrompt ==
    \A i \in Instances :
        ReadFailed(i) =>
            /\ ~escaped[i]
            /\ pc[i] = "ACTIVE"
            /\ loaded[i].after = loaded[i].before
            /\ system_prompt[i] = loaded[i].before

\* a broken message after well-formed ones
C4_Witness ==
    \E i \in Instances : loaded[i].outcome = "malformed" /\ loaded[i].partial

----------------------------------------------------------------------------
(* C5 *)

\* C5: on_agent_initialized issues one read, for the hook's session and
\* k = 5; when the read succeeds the lines it adds are exactly
\* "{role}: {text}" for each message of the min(N, 5) most recent turns,
\* oldest first, one per line.
C5_LastFiveTurnsInOrder ==
    \A i \in Instances :
        Initialized(i) =>
            /\ get_calls[i] = <<[memory_id |-> hook[i].memory_id,
                                 actor_id |-> hook[i].actor_id,
                                 session_id |-> hook[i].session_id, k |-> 5]>>
            /\ ~escaped[i]
            /\ loaded[i].outcome = "ok" =>
                  LET recent == RecentMessages(i)
                  IN  IF recent = <<>> THEN loaded[i].after = loaded[i].before
                      ELSE /\ IsPrefix(loaded[i].before \o Header, loaded[i].after)
                           /\ SplitLines(SubSeq(loaded[i].after,
                                                Len(loaded[i].before) + 2,
                                                Len(loaded[i].after)), <<>>)
                                = [n \in 1..Len(recent) |->
                                     <<recent[n].role, ": ", recent[n].content.text>>]

\* a successful read of a session holding more than five turns
C5_Witness ==
    \E i \in Instances :
        loaded[i].outcome = "ok" /\ TurnsAtRead(i) > 5

----------------------------------------------------------------------------
(* C6 *)

\* the block of the turns instance i's read returned
HistoryBlock(i) ==
    LET recent == RecentMessages(i)
    IN  Join([n \in 1..Len(recent) |->
                <<recent[n].role, ": ", recent[n].content.text>>])

\* C6 as claimed: the prompt before the call is a prefix of the prompt after;
\* when at least one turn was returned the header and the block follow it;
\* when none was returned the prompt is unchanged; the log is unchanged.
C6_Original ==
    \A i \in Instances :
        Initialized(i) =>
            /\ IsPrefix(loaded[i].before, loaded[i].after)
            /\ (loaded[i].outcome # "raise" /\ TurnsAtRead(i) >= 1) =>
                  loaded[i].after = loaded[i].before \o Header \o HistoryBlock(i)
            /\ (loaded[i].outcome # "raise" /\ TurnsAtRead(i) = 0) =>
                  loaded[i].after = loaded[i].before
            /\ handled[i] = <<>> => messages[i] = <<>>

\* C6 as amended: the header and the block follow when at least one turn was
\* returned and every returned message has its role and content.text; when no
\* turn was returned, a message is broken or the read raised, the prompt is
\* unchanged. The prompt before is always a prefix and the log is unchanged.
C6_AppendsNeverReplaces ==
    \A i \in Instances :
        Initialized(i) =>
            /\ IsPrefix(loaded[i].before, loaded[i].after)
            /\ (loaded[i].outcome = "ok" /\ TurnsAtRead(i) >= 1) =>
                  loaded[i].after = loaded[i].before \o Header \o HistoryBlock(i)
            /\ (ReadFailed(i) \/ TurnsAtRead(i) = 0) =>
                  loaded[i].after = loaded[i].before
            /\ handled[i] = <<>> => messages[i] = <<>>

\* history appended behind a prompt that was not empty
C6_Witness ==
    \E i \in Instances :
        /\ loaded[i].outcome = "ok" /\ TurnsAtRead(i) >= 2
        /\ loaded[i].before = BasePrompt
        /\ Len(system_prompt[i]) > Len(BasePrompt) + 1

----------------------------------------------------------------------------
(* C7 *)

\* message n of instance i was logged before instance j read the history
LoggedBefore(i, n, j) == Initialized(j) /\ handled[i][n].no <= loaded[j].upto

\* fewer than five turns were opened after message n of instance i and before
\* the read of instance j, so its turn is among the last five
InWindow(i, n, j) ==
    Cardinality({no \in handled[i][n].no + 1 .. loaded[j].upto :
                    \E a \in Instances : \E b \in 1..Len(messages[a]) :
                        handled[a][b].no = no /\ messages[a][b].role = "USER"}) < 5

----------------------------------------------------------------------------
(* C8 *)

----------------------------------------------------------------------------
(* C9 *)

CallsFor(id) == {c \in 1..Len(delete_calls) : delete_calls[c].memory_id = id}

\* C9: every listed memory is prompted for, in list order, whatever was
\* answered or failed before it; delete_memory is issued for a memory exactly
\* when the answer to its prompt is y or Y, and once.
C9_DeleteOnlyOnYes ==
    /\ del_pc # "raised"
    /\ Len(prompts) = del_pos - 1 /\ Len(answers) = del_pos - 1
    /\ \A p \in 1..Len(prompts) :
          /\ prompts[p] = memories[p].id
          /\ answers[p] \in {<<"y">>, <<"Y">>} => Cardinality(CallsFor(prompts[p])) = 1
          /\ answers[p] \notin {<<"y">>, <<"Y">>} => CallsFor(prompts[p]) = {}
    /\ \A c \in 1..Len(delete_calls) : \E p \in 1..Len(prompts) :
          prompts[p] = delete_calls[c].memory_id
    /\ del_pc = "done" => Len(prompts) = Len(memories)
    /\ del_pc = "loop" => del_pos <= Len(memories)

\* a declined memory and a failed delete, then a delete confirmed with Y
C9_Witness ==
    /\ del_pc = "done" /\ Len(memories) = 3
    /\ answers[1] = <<"n">>
    /\ answers[2] = <<"y">> /\ ~delete_calls[1].ok
    /\ answers[3] = <<"Y">> /\ delete_calls[2].ok

----------------------------------------------------------------------------
(* C10 *)

\* C10 as claimed: every execution of execute_script_in_sandbox ends with
\* the session stopped, whether it returns or raises.
C10_Original ==
    sbx_pc \in {"done", "raised"} => session = "stopped"

----------------------------------------------------------------------------
(* C11 *)

\* the sandbox calls issued so far, code_client.stop() included
SandboxCalls ==
    [n \in 1..Len(tool_calls) |-> tool_calls[n].tool]
    \o (IF session = "stopped" THEN <<"stop">> ELSE <<>>)

\* the folder entries upload_files_to_sandbox is to upload: files whose
\* extension, lower-cased and without its dot, is csv or py
Uploadable ==
    {e \in folder : e.isfile /\ e.ext \in {".py", ".PY", ".csv"}}

ScriptUploaded == \E e \in Uploadable : e.stem \o e.ext = python_script

\* the calls are a prefix of writeFiles, listFiles, executeCode, stop, and
\* executeCode carries the text of the uploaded file named python_script
C11_OrderAndCode ==
    /\ IsPrefix(SandboxCalls, <<"writeFiles", "listFiles", "executeCode", "stop">>)
    /\ sbx_pc = "done" <=> session = "stopped"
    /\ \A n \in 1..Len(tool_calls) :
          tool_calls[n].tool = "executeCode" =>
              \E e \in Uploadable :
                  /\ e.stem \o e.ext = python_script
                  /\ tool_calls[n].arguments = <<e.text>>
    /\ ~ScriptUploaded =>
          /\ \A n \in 1..Len(tool_calls) : tool_calls[n].tool # "executeCode"
          /\ sbx_pc \notin {"stop", "done"}
    /\ raised = "ValueError" => ~ScriptUploaded /\ sbx_pc = "raised"

\* step 3 with python_script not among the uploaded files raises ValueError
\* and issues no call
C11_MissingScriptStep ==
    (sbx_pc = "execute" /\ ~ScriptUploaded) =>
        /\ sbx_pc' = "raised" /\ raised' = "ValueError"
        /\ tool_calls' = tool_calls /\ session' = session

\* C11: execute_script_in_sandbox issues writeFiles, listFiles, executeCode,
\* stop in this order; executeCode is issued only with the text of the
\* uploaded file whose path is python_script; when python_script is not among
\* the uploaded files, ValueError is raised and executeCode is never issued.
C11_FixedOrderScriptOnly == []C11_OrderAndCode /\ [][C11_MissingScriptStep]_vars

\* a file of the folder with an extension outside csv/py was asked for, next
\* to uploaded files, and ValueError was raised
C11_Witness ==
    /\ python_script = "notes.txt"
    /\ \E e \in folder : e.stem \o e.ext = "notes.txt"
    /\ Uploadable # {}
    /\ raised = "ValueError"
    /\ SandboxCalls = <<"writeFiles", "listFiles">>

----------------------------------------------------------------------------
(* C12 *)

\* C12 as claimed: create_memory is called only when no memory has the name;
\* the call returns the existing or the newly created memory object; it
\* returns None only when creation failed.
C12_Original ==
    \A n \in 1..Len(created) :
        /\ created[n].existed => created[n].calls = <<>>
        /\ created[n].result # None =>
              \/ created[n].result = created[n].made
              \/ \E obj \in created[n].existing : created[n].result = Some(obj)
        /\ created[n].made # None => created[n].result = created[n].made
        /\ created[n].result = None =>
              \E c \in 1..Len(created[n].calls) : ~created[n].calls[c].ok

----------------------------------------------------------------------------
(* C13 *)

SameKey(call, self) ==
    /\ call.memory_id = self.memory_id
    /\ call.actor_id = self.actor_id
    /\ call.session_id = self.session_id

\* the messages stored by the events numbered from..msg_count into the
\* session of key, in the order of the events
RECURSIVE WrittenTo(_, _)
WrittenTo(key, from) ==
    IF from > msg_count THEN <<>>
    ELSE LET here == {<<i, n>> \in Instances \X (1..MaxMsgs) :
                         /\ n <= Len(handled[i])
                         /\ handled[i][n].no = from
                         /\ Stored(handled[i][n])
                         /\ KeyOf(hook[i]) = key}
         IN  (IF here = {} THEN <<>>
              ELSE LET w == CHOOSE w \in here : TRUE
                   IN  handled[w[1]][w[2]].calls[1].messages)
             \o WrittenTo(key, from + 1)

FirstEvent ==
    1 + Len(SessionEvents(SessionKey(SESSION_ID)))
      + Len(SessionEvents(SessionKey(OTHER_SESSION_ID)))

C13_Isolated ==
    /\ \A i \in Instances :
          /\ hook[i] \in {MemoryHookProvider(MEMORY_ID, ACTOR_ID, s) : s \in Sessions}
          /\ \A c \in 1..Len(get_calls[i]) : SameKey(get_calls[i][c], hook[i])
          /\ \A n \in 1..Len(handled[i]) : \A c \in 1..Len(handled[i][n].calls) :
                SameKey(handled[i][n].calls[c], hook[i])
          /\ Initialized(i) => IsPrefix(loaded[i].events, store[KeyOf(hook[i])])
          /\ \A key \in SessionKeys \ {KeyOf(hook[i])} :
                \A e \in 1..Len(store[key]), p \in 1..Len(system_prompt[i]) :
                    system_prompt[i][p] # store[key][e][1]
    /\ \A key \in SessionKeys :
          store[key] = SessionEvents(key) \o WrittenTo(key, FirstEvent)

C13_OwnSessionStep ==
    /\ hook' = hook
    /\ \A key \in SessionKeys :
          store'[key] # store[key] =>
              \E i \in Instances :
                  /\ KeyOf(hook[i]) = key
                  /\ Len(messages'[i]) = Len(messages[i]) + 1
                  /\ \A j \in Instances \ {i} : messages'[j] = messages[j]

\* C13: every read and write of an instance carries the (memory_id, actor_id,
\* session_id) it was constructed with, which never change; an instance changes
\* and reads only the stored messages of its own session; each session holds
\* what it held at the start followed by the stored writes of the instances
\* bound to it, in the order the events happened.
C13_SessionIsolation == []C13_Isolated /\ [][C13_OwnSessionStep]_vars

\* two instances on different sessions: the first stored a message, then the
\* second loaded its own session's history and stored a message too
C13_Witness ==
    /\ hook[1].session_id # hook[2].session_id
    /\ Len(handled[1]) = 1 /\ Stored(handled[1][1])
    /\ loaded[2].outcome = "ok" /\ loaded[2].upto >= handled[1][1].no
    /\ Len(handled[2]) = 1 /\ Stored(handled[2][1])
    /\ Len(system_prompt[2]) > Len(BasePrompt)

====
